---- MODULE Spec2Model ----
(***************************************************************************)
(* Credential / token lifecycle of src/app.py: the S3 backed per-user      *)
(* record, the validity check, and the /auth/login, /auth/token,           *)
(* /auth/refresh and /api/user/settings handlers.                          *)
(*                                                                         *)
(* Conventions                                                             *)
(*  - time is counted in whole seconds since an arbitrary epoch;           *)
(*  - a Python dict is a TLA+ record (its DOMAIN is the set of keys);      *)
(*  - Python None is the empty function <<>> (falsy, like the empty dict); *)
(*  - request ids and tokens are TLA+ strings, "" standing for a field     *)
(*    that is absent, null or empty (all falsy in the handlers);           *)
(*  - a phone number is a sequence of characters so that strip() acts.     *)
(***************************************************************************)
EXTENDS Integers, Sequences, FiniteSets, TLC

VARIABLES
    s3_client,   \* module global of app.py:117-126: "S3" or "None"
    blobs,       \* the bucket: key -> stored JSON document
    now,         \* the wall clock, datetime.now(timezone.utc)
    last,        \* the request served last, with its response and its I/O
    inflight     \* per worker: the request it is in the middle of serving

vars == <<s3_client, blobs, now, last, inflight>>

-----------------------------------------------------------------------------
(* Program constant and model bounds *)

TOKEN_EXPIRY_SECONDS == 28 * 24 * 60 * 60

MaxSkew == 1

\* The instants the clock visits: the start, and the seconds around one
\* token lifetime later.
Instants == {0} \cup {TOKEN_EXPIRY_SECONDS + k : k \in (0 - 1)..MaxSkew}

None == <<>>

UserIds == {"u1", "u2"}
Tokens == {"t1", "t2"}

-----------------------------------------------------------------------------
(* Timestamps: datetime.isoformat() and datetime.fromisoformat() *)

isoformat(t) == <<"iso", t>>

MalformedTimestamp == <<"not-a-date">>

fromisoformat_raises(s) == ~(Len(s) = 2 /\ s[1] = "iso")

fromisoformat(s) == s[2]

-----------------------------------------------------------------------------
(* str.strip() on a sequence of characters *)

Whitespace == {" "}

RECURSIVE lstrip(_)
lstrip(s) ==
    IF s # <<>> /\ Head(s) \in Whitespace THEN lstrip(Tail(s)) ELSE s

RECURSIVE rstrip(_)
rstrip(s) ==
    IF s # <<>> /\ s[Len(s)] \in Whitespace
    THEN rstrip(SubSeq(s, 1, Len(s) - 1))
    ELSE s

\* Mutant: the phone number is not trimmed.
strip_omitted(s) == s

strip(s) == rstrip(lstrip(s))

-----------------------------------------------------------------------------
(* Credential store *)

\* Mutant: the key does not depend on the user.
Filename_shared(canva_user_id) == <<"canva-catalog-app/", "user", ".json">>

\* f"canva-catalog-app/{canva_user_id}.json"
Filename(canva_user_id) == <<"canva-catalog-app/", canva_user_id, ".json">>

\* Mutant: a put over an existing blob keeps that blob's token_timestamp.
put_object_keeps_timestamp(bucket, Key, Body) ==
    [k \in DOMAIN bucket \cup {Key} |->
        IF k # Key THEN bucket[k]
        ELSE IF Key \in DOMAIN bucket
        THEN [Body EXCEPT !.token_timestamp = bucket[Key].token_timestamp]
        ELSE Body]

\* s3_client.put_object: full overwrite of the blob at Key, or an exception
\* that leaves the bucket as it was.
put_object(bucket, Key, Body) ==
    [k \in DOMAIN bucket \cup {Key} |-> IF k = Key THEN Body ELSE bucket[k]]

\* Mutant: the former one-hour expiry is written instead of the argument.
user_data_of_hourly(canva_user_id, workspace_id, client_id, client_secret, login_token, expires_in) ==
    [canva_user_id |-> canva_user_id,
     workspace_id |-> workspace_id,
     client_id |-> client_id,
     client_secret |-> client_secret,
     login_token |-> login_token,
     token_timestamp |-> isoformat(now),
     token_expires_in |-> 60 * 60]

\* The dict written by store_user_credentials.
user_data_of(canva_user_id, workspace_id, client_id, client_secret, login_token, expires_in) ==
    [canva_user_id |-> canva_user_id,
     workspace_id |-> workspace_id,
     client_id |-> client_id,
     client_secret |-> client_secret,
     login_token |-> login_token,
     token_timestamp |-> isoformat(now),
     token_expires_in |-> expires_in]

\* Mutant: the document is written before the failure is noticed.
store_user_credentials_writes_first(canva_user_id, workspace_id, client_id, client_secret, login_token, expires_in, put_raises) ==
    IF s3_client = "None" THEN [ok |-> FALSE, bucket |-> blobs, puts |-> 0]
    ELSE [ok |-> ~put_raises,
          bucket |-> put_object(blobs, Filename(canva_user_id),
                        user_data_of(canva_user_id, workspace_id, client_id,
                                     client_secret, login_token, expires_in)),
          puts |-> 1]

\* store_user_credentials: [ok, bucket], the return value and the bucket after.
store_user_credentials(canva_user_id, workspace_id, client_id, client_secret, login_token, expires_in, put_raises) ==
    IF s3_client = "None" THEN [ok |-> FALSE, bucket |-> blobs, puts |-> 0]
    ELSE IF put_raises THEN [ok |-> FALSE, bucket |-> blobs, puts |-> 1]
    ELSE [ok |-> TRUE,
          bucket |-> put_object(blobs, Filename(canva_user_id),
                        user_data_of(canva_user_id, workspace_id, client_id,
                                     client_secret, login_token, expires_in)),
          puts |-> 1]

\* get_user_credentials: the stored dict, or None when the client is missing,
\* the key is missing or get_object raised.
get_user_credentials(canva_user_id, get_raises) ==
    IF s3_client = "None" THEN None
    ELSE IF get_raises \/ Filename(canva_user_id) \notin DOMAIN blobs THEN None
    ELSE blobs[Filename(canva_user_id)]

\* Number of get_object calls get_user_credentials issues.
get_calls == IF s3_client = "None" THEN 0 ELSE 1

\* Mutant: only the settings fields are written, onto the blob as it is now.
update_user_credentials_merging(canva_user_id, updated_data, put_raises) ==
    IF s3_client = "None" THEN [ok |-> FALSE, bucket |-> blobs, puts |-> 0]
    ELSE IF put_raises THEN [ok |-> FALSE, bucket |-> blobs, puts |-> 1]
    ELSE [ok |-> TRUE,
          bucket |->
              put_object(blobs, Filename(canva_user_id),
                  LET current == blobs[Filename(canva_user_id)]
                  IN  [k \in DOMAIN current \cup DOMAIN updated_data |->
                          IF k \in DOMAIN current
                             /\ k \notin {"phoneNumber", "settings_updated"}
                          THEN current[k] ELSE updated_data[k]]),
          puts |-> 1]

\* update_user_credentials: [ok, bucket].
update_user_credentials(canva_user_id, updated_data, put_raises) ==
    IF s3_client = "None" THEN [ok |-> FALSE, bucket |-> blobs, puts |-> 0]
    ELSE IF put_raises THEN [ok |-> FALSE, bucket |-> blobs, puts |-> 1]
    ELSE [ok |-> TRUE,
          bucket |-> put_object(blobs, Filename(canva_user_id), updated_data),
          puts |-> 1]

-----------------------------------------------------------------------------
(* Token validity checker *)

\* user_data.get('token_expires_in', TOKEN_EXPIRY_SECONDS)
expires_in_of(user_data) ==
    IF "token_expires_in" \in DOMAIN user_data
    THEN user_data.token_expires_in
    ELSE TOKEN_EXPIRY_SECONDS

\* Mutant: the operands of the subtraction are swapped.
token_age_reversed(user_data, t) ==
    fromisoformat(user_data.token_timestamp) - t

\* (t - token_timestamp).total_seconds()
token_age(user_data, t) == t - fromisoformat(user_data.token_timestamp)

\* Mutant: the token still counts as valid at the instant of expiry.
is_token_valid_inclusive(user_data, t) ==
    IF "token_timestamp" \notin DOMAIN user_data
       \/ fromisoformat_raises(user_data.token_timestamp)
    THEN FALSE
    ELSE token_age(user_data, t) <= expires_in_of(user_data)

\* Mutant: a record whose timestamp cannot be read counts as valid.
is_token_valid_fails_open(user_data, t) ==
    IF "token_timestamp" \notin DOMAIN user_data
       \/ fromisoformat_raises(user_data.token_timestamp)
    THEN TRUE
    ELSE token_age(user_data, t) < expires_in_of(user_data)

\* is_token_valid, evaluated when the clock reads t.
is_token_valid(user_data, t) ==
    IF "token_timestamp" \notin DOMAIN user_data
       \/ fromisoformat_raises(user_data.token_timestamp)
    THEN FALSE
    ELSE token_age(user_data, t) < expires_in_of(user_data)

-----------------------------------------------------------------------------
(* Signature generator and the external auth API *)

\* create_hmac_signature: HMAC-SHA256 keyed by the secret over
\* "{workspace_id}_{client_id}", kept symbolic.
create_hmac_signature(workspace_id, client_id, client_secret) ==
    <<"hmac-sha256", client_secret, <<workspace_id, "_", client_id>>>>

\* auth_payload posted to /mdm-integration/v1/api/auth/login
auth_payload_of(workspace_id, client_id, client_secret) ==
    [workspaceId |-> workspace_id,
     clientId |-> client_id,
     signature |-> create_hmac_signature(workspace_id, client_id, client_secret)]

\* What requests.post can do: raise a RequestException, or answer with a
\* status and a body that is or is not JSON; a JSON body carries the fields
\* token and access_token ("" when absent or empty).
StatusCodes == {200, 201, 202, 403}

JsonBodies ==
    {[token |-> "t1", access_token |-> ""],
     [token |-> "", access_token |-> "t2"],
     [token |-> "t2", access_token |-> "t1"],
     [token |-> "", access_token |-> ""]}

AuthAnswer(status_code, body) ==
    [raised |-> FALSE, status_code |-> status_code, json_valid |-> TRUE,
     token |-> body.token, access_token |-> body.access_token]

AuthOutcomes ==
    {[raised |-> TRUE],
     [raised |-> FALSE, status_code |-> 200, json_valid |-> FALSE],
     [raised |-> FALSE, status_code |-> 403, json_valid |-> FALSE]}
    \cup {AuthAnswer(200, body) : body \in JsonBodies}
    \cup {AuthAnswer(status_code, [token |-> "t1", access_token |-> ""]) :
             status_code \in StatusCodes}

\* Mutant: every status below 500 is taken for a success.
StatusCodesBelow500 == {c \in StatusCodes : c < 500}

SuccessStatusCodes == {200, 201, 202}

\* Mutant: access_token is preferred to token.
token_of_access_first(auth_data) ==
    IF auth_data.access_token # "" THEN auth_data.access_token
    ELSE auth_data.token

\* auth_data.get('token') or auth_data.get('access_token')
token_of(auth_data) ==
    IF auth_data.token # "" THEN auth_data.token ELSE auth_data.access_token

-----------------------------------------------------------------------------
(* Handlers.  Each yields                                                  *)
(*   response     the JSON envelope with its HTTP status,                  *)
(*   bucket       the bucket after the request,                            *)
(*   auth_payload the body posted to the auth API, None if none was,       *)
(*   auth         the auth API's outcome, None if it was not called,       *)
(*   gets, puts   the number of get_object / put_object calls issued.      *)

Failure(status, error, bucket, auth_payload, auth, gets, puts) ==
    [response |-> [status |-> status, success |-> FALSE, error |-> error],
     bucket |-> bucket, auth_payload |-> auth_payload, auth |-> auth,
     gets |-> gets, puts |-> puts]

\* Steps shared by login and refresh_token once the credentials are known:
\* the auth call, the status check, the token extraction and the store.
authenticate_and_store(canva_user_id, workspace_id, client_id, client_secret, auth, put_raises, gets, errors) ==
    LET payload == auth_payload_of(workspace_id, client_id, client_secret)
    IN  IF auth.raised
        THEN Failure(500, errors.network, blobs, payload, auth, gets, 0)
        ELSE IF auth.status_code \notin SuccessStatusCodes
        THEN Failure(401, errors.rejected, blobs, payload, auth, gets, 0)
        ELSE IF ~auth.json_valid
        THEN Failure(401, errors.invalid_json, blobs, payload, auth, gets, 0)
        ELSE IF token_of(auth) = ""
        THEN Failure(401, errors.no_token, blobs, payload, auth, gets, 0)
        ELSE LET stored == store_user_credentials(canva_user_id, workspace_id,
                               client_id, client_secret, token_of(auth),
                               TOKEN_EXPIRY_SECONDS, put_raises)
             IN  IF stored.ok
                 THEN [response |-> [status |-> 200, success |-> TRUE,
                                     token |-> token_of(auth),
                                     expires_in |-> TOKEN_EXPIRY_SECONDS],
                       bucket |-> stored.bucket, auth_payload |-> payload,
                       auth |-> auth, gets |-> gets, puts |-> stored.puts]
                 ELSE Failure(500, errors.store, stored.bucket, payload, auth,
                              gets, stored.puts)

LoginErrors ==
    [network |-> "Network error during authentication",
     rejected |-> "Authentication failed with Zotok API",
     invalid_json |-> "Invalid JSON response from Zotok API",
     no_token |-> "No token received from Zotok API",
     store |-> "Failed to store credentials"]

\* POST /auth/login.  data is request.get_json(): None or a dict.
login(data, auth, put_raises) ==
    IF data = None
    THEN Failure(500, "Internal server error", blobs, None, None, 0, 0)
    ELSE IF data.workspaceId = "" \/ data.clientId = ""
            \/ data.clientSecret = "" \/ data.canvaUserId = ""
    THEN Failure(400, "Missing required credentials", blobs, None, None, 0, 0)
    ELSE authenticate_and_store(data.canvaUserId, data.workspaceId,
             data.clientId, data.clientSecret, auth, put_raises, 0,
             LoginErrors)

\* GET /auth/token.  The validity check reads the clock at `now`, the
\* remaining-time computation reads it again at now2.
get_token(canva_user_id, get_raises, now2) ==
    IF canva_user_id = ""
    THEN Failure(400, "Missing canvaUserId parameter", blobs, None, None, 0, 0)
    ELSE LET user_data == get_user_credentials(canva_user_id, get_raises)
         IN  IF user_data = None
             THEN Failure(404, "No stored credentials found", blobs, None,
                          None, get_calls, 0)
             ELSE IF is_token_valid(user_data, now)
             THEN [response |->
                       [status |-> 200, success |-> TRUE,
                        token |-> user_data.login_token,
                        remaining_seconds |->
                            expires_in_of(user_data)
                            - token_age(user_data, now2)],
                   bucket |-> blobs, auth_payload |-> None, auth |-> None,
                   gets |-> get_calls, puts |-> 0]
             ELSE Failure(401, "Stored token has expired", blobs, None, None,
                          get_calls, 0)

RefreshErrors ==
    [network |-> "Error refreshing token",
     rejected |-> "Token refresh failed",
     invalid_json |-> "Invalid JSON response from Zotok API during refresh",
     no_token |-> "No token received during refresh",
     store |-> "Failed to store refreshed token"]

\* Mutant: the missing document is not checked for, and indexing None raises.
refresh_token_unguarded(data, get_raises, auth, put_raises) ==
    IF data = None
    THEN Failure(500, "Error refreshing token", blobs, None, None, 0, 0)
    ELSE IF data.canvaUserId = ""
    THEN Failure(400, "Missing canvaUserId", blobs, None, None, 0, 0)
    ELSE LET user_data == get_user_credentials(data.canvaUserId, get_raises)
         IN  IF user_data = None
             THEN Failure(500, "Error refreshing token", blobs, None, None,
                          get_calls, 0)
             ELSE authenticate_and_store(data.canvaUserId,
                      user_data.workspace_id, user_data.client_id,
                      user_data.client_secret, auth, put_raises, get_calls,
                      RefreshErrors)

\* Mutant: a refresh of a record whose token has expired is refused.
refresh_token_rejects_expired(data, get_raises, auth, put_raises) ==
    IF data = None
    THEN Failure(500, "Error refreshing token", blobs, None, None, 0, 0)
    ELSE IF data.canvaUserId = ""
    THEN Failure(400, "Missing canvaUserId", blobs, None, None, 0, 0)
    ELSE LET user_data == get_user_credentials(data.canvaUserId, get_raises)
         IN  IF user_data = None
             THEN Failure(404, "No stored credentials found", blobs, None,
                          None, get_calls, 0)
             ELSE IF ~is_token_valid(user_data, now)
             THEN Failure(401, "Stored token has expired", blobs, None, None,
                          get_calls, 0)
             ELSE authenticate_and_store(data.canvaUserId,
                      user_data.workspace_id, user_data.client_id,
                      user_data.client_secret, auth, put_raises, get_calls,
                      RefreshErrors)

\* POST /auth/refresh.
refresh_token(data, get_raises, auth, put_raises) ==
    IF data = None
    THEN Failure(500, "Error refreshing token", blobs, None, None, 0, 0)
    ELSE IF data.canvaUserId = ""
    THEN Failure(400, "Missing canvaUserId", blobs, None, None, 0, 0)
    ELSE LET user_data == get_user_credentials(data.canvaUserId, get_raises)
         IN  IF user_data = None
             THEN Failure(404, "No stored credentials found", blobs, None,
                          None, get_calls, 0)
             ELSE authenticate_and_store(data.canvaUserId,
                      user_data.workspace_id, user_data.client_id,
                      user_data.client_secret, auth, put_raises, get_calls,
                      RefreshErrors)

\* user_data.get('phoneNumber', '')
phone_number_of(user_data) ==
    IF "phoneNumber" \in DOMAIN user_data THEN user_data.phoneNumber ELSE <<>>

\* GET /api/user/settings.
get_settings(canva_user_id, auth_header, get_raises) ==
    IF canva_user_id = ""
    THEN Failure(400, "Missing canvaUserId parameter", blobs, None, None, 0, 0)
    ELSE IF auth_header = ""
    THEN Failure(401, "Authorization header missing", blobs, None, None, 0, 0)
    ELSE LET user_data == get_user_credentials(canva_user_id, get_raises)
         IN  IF user_data = None
             THEN Failure(404, "User data not found", blobs, None, None,
                          get_calls, 0)
             ELSE IF ~is_token_valid(user_data, now)
             THEN Failure(401, "Token expired", blobs, None, None,
                          get_calls, 0)
             ELSE [response |-> [status |-> 200, success |-> TRUE,
                                 phoneNumber |-> phone_number_of(user_data)],
                   bucket |-> blobs, auth_payload |-> None, auth |-> None,
                   gets |-> get_calls, puts |-> 0]

\* JSON null as the value of phoneNumber: None has no strip().
JsonNull == <<"null">>

\* Mutant: the phone number is stored under another key.
with_phone_wrong_key(user_data, phone_number) ==
    [k \in DOMAIN user_data \cup {"phone_number", "settings_updated"} |->
        IF k = "phone_number" THEN phone_number
        ELSE IF k = "settings_updated" THEN isoformat(now)
        ELSE user_data[k]]

\* Mutant: saving the settings also restarts the token's lifetime.
with_phone_restamped(user_data, phone_number) ==
    [k \in DOMAIN user_data \cup {"phoneNumber", "settings_updated"} |->
        IF k = "phoneNumber" THEN phone_number
        ELSE IF k \in {"settings_updated", "token_timestamp"}
        THEN isoformat(now)
        ELSE user_data[k]]

\* user_data['phoneNumber'] = ...; user_data['settings_updated'] = ...
with_phone(user_data, phone_number) ==
    [k \in DOMAIN user_data \cup {"phoneNumber", "settings_updated"} |->
        IF k = "phoneNumber" THEN phone_number
        ELSE IF k = "settings_updated" THEN isoformat(now)
        ELSE user_data[k]]

\* POST /api/user/settings.  data is None, or a dict with canvaUserId and
\* possibly phoneNumber.
post_settings(data, auth_header, get_raises, put_raises) ==
    IF data = None
    THEN Failure(400, "No data provided", blobs, None, None, 0, 0)
    ELSE LET raw == IF "phoneNumber" \in DOMAIN data
                    THEN data.phoneNumber ELSE <<>>
         IN  IF raw = JsonNull
             THEN Failure(500, "Internal server error", blobs, None, None,
                          0, 0)
             ELSE IF data.canvaUserId = ""
             THEN Failure(400, "Missing canvaUserId", blobs, None, None, 0, 0)
             ELSE IF strip(raw) = <<>>
             THEN Failure(400, "Phone number is required", blobs, None, None,
                          0, 0)
             ELSE IF auth_header = ""
             THEN Failure(401, "Authorization header missing", blobs, None,
                          None, 0, 0)
             ELSE LET user_data ==
                          get_user_credentials(data.canvaUserId, get_raises)
                  IN  IF user_data = None
                      THEN Failure(404, "User data not found", blobs, None,
                                   None, get_calls, 0)
                      ELSE IF ~is_token_valid(user_data, now)
                      THEN Failure(401, "Token expired", blobs, None, None,
                                   get_calls, 0)
                      ELSE LET saved == update_user_credentials(
                                            data.canvaUserId,
                                            with_phone(user_data, strip(raw)),
                                            put_raises)
                           IN  IF saved.ok
                               THEN [response |->
                                         [status |-> 200, success |-> TRUE,
                                          phoneNumber |-> strip(raw)],
                                     bucket |-> saved.bucket,
                                     auth_payload |-> None, auth |-> None,
                                     gets |-> get_calls, puts |-> saved.puts]
                               ELSE Failure(500,
                                        "Failed to save settings to storage",
                                        saved.bucket, None, None, get_calls,
                                        saved.puts)

-----------------------------------------------------------------------------
(* Requests and the environment *)

\* Documents found in the bucket at startup that this version of the program
\* did not write: one without token_expires_in, one whose token_timestamp
\* does not parse, one without token_timestamp.
LegacyKinds == {"none", "no_ttl", "bad_timestamp", "no_timestamp"}

LegacyRecord(canva_user_id, kind) ==
    IF kind = "no_ttl"
    THEN [canva_user_id |-> canva_user_id, workspace_id |-> "w0",
          client_id |-> "c0", client_secret |-> "s0", login_token |-> "t0",
          token_timestamp |-> isoformat(0)]
    ELSE IF kind = "no_timestamp"
    THEN [canva_user_id |-> canva_user_id, workspace_id |-> "w0",
          client_id |-> "c0", client_secret |-> "s0", login_token |-> "t0",
          token_expires_in |-> TOKEN_EXPIRY_SECONDS]
    ELSE [canva_user_id |-> canva_user_id, workspace_id |-> "w0",
          client_id |-> "c0", client_secret |-> "s0", login_token |-> "t0",
          token_timestamp |-> MalformedTimestamp,
          token_expires_in |-> TOKEN_EXPIRY_SECONDS]

InitialBucket(kind) ==
    [f \in {Filename(u) : u \in {v \in UserIds : kind[v] # "none"}} |->
        LegacyRecord(f[2], kind[f[2]])]

\* Request bodies naming the users of U.  A login body has at most one of
\* its four fields empty.
EmptyFields(data) == {k \in DOMAIN data : data[k] = ""}

LoginBodies(U) ==
    {None}
    \cup {data \in [workspaceId : {"w1", ""}, clientId : {"c1", ""},
                    clientSecret : {"s1", ""}, canvaUserId : U \cup {""}] :
             Cardinality(EmptyFields(data)) <= 1}

RefreshBodies(U) == {None} \cup [canvaUserId : U \cup {""}]

PhoneInputs == {<<>>, <<" ">>, <<"5">>, <<" ", "5">>, <<"6", " ">>, JsonNull}

SettingsBodies(U) ==
    {None}
    \cup [canvaUserId : U]
    \cup [canvaUserId : U, phoneNumber : PhoneInputs]
    \cup [canvaUserId : {""}, phoneNumber : {<<"5">>, JsonNull}]

AuthHeaders == {"", "Bearer"}

NoRequest ==
    [op |-> "startup", request |-> None,
     response |-> [status |-> 0, success |-> FALSE, error |-> ""],
     auth_payload |-> None, auth |-> None, gets |-> 0, puts |-> 0,
     get_raised |-> FALSE, put_raised |-> FALSE, fresh |-> FALSE]

\* The requests of one user, with the other user's document as a bystander.
Clients == {"u1"}

\* The server's workers (threads), each serving one request at a time, and
\* the locals of a worker that is serving none.
Workers == {"a", "b"}

Idle ==
    [op |-> "none", pc |-> "idle", request |-> None, user_data |-> None,
     auth |-> None, doc |-> None, response |-> None]

Init ==
    /\ s3_client \in {"S3", "None"}
    /\ \E kind \in [UserIds -> LegacyKinds] :
           /\ \A u \in UserIds \ Clients : kind[u] = "no_ttl"
           /\ blobs = InitialBucket(kind)
    /\ now = 0
    /\ last = NoRequest
    /\ inflight = [w \in Workers |-> Idle]

\* The handler's result becomes the state: the bucket it leaves and the
\* record of the request.  A backend fault is recorded when the call it
\* would have hit was issued.  fresh tells that no time has passed since.
Serve(op, request, result, get_raises, put_raises) ==
    /\ blobs' = result.bucket
    /\ last' = [op |-> op, request |-> request,
                response |-> result.response,
                auth_payload |-> result.auth_payload, auth |-> result.auth,
                gets |-> result.gets, puts |-> result.puts,
                get_raised |-> (get_raises /\ result.gets > 0),
                put_raised |-> (put_raises /\ result.puts > 0),
                fresh |-> TRUE]
    /\ UNCHANGED <<s3_client, inflight>>

\* The outcomes of the environment a request can meet.  An outcome of a
\* call the handler does not come to make is not drawn: the handler's own
\* record of its I/O tells which calls it makes.
AuthNotCalled == [raised |-> TRUE]

AuthDraws(result) == IF result.auth = None THEN {AuthNotCalled} ELSE AuthOutcomes

GetDraws(result) == IF result.gets = 0 THEN {FALSE} ELSE BOOLEAN

PutDraws(result) == IF result.puts = 0 THEN {FALSE} ELSE BOOLEAN

Login(U) ==
    \E data \in LoginBodies(U) :
    \E auth \in AuthDraws(login(data, AuthNotCalled, FALSE)) :
    \E put_raises \in PutDraws(login(data, auth, FALSE)) :
        /\ Serve("login", [data |-> data], login(data, auth, put_raises),
                 FALSE, put_raises)
        /\ UNCHANGED now

MaxHandlerDelay == 1

GetToken(U) ==
    \E canva_user_id \in U \cup {""} :
    \E get_raises \in GetDraws(get_token(canva_user_id, FALSE, now)) :
    \E now2 \in Instants :
        /\ now <= now2 /\ now2 <= now + MaxHandlerDelay
        /\ Serve("get_token", [canvaUserId |-> canva_user_id],
                 get_token(canva_user_id, get_raises, now2),
                 get_raises, FALSE)
        /\ now' = now2

Refresh(U) ==
    \E data \in RefreshBodies(U) :
    \E get_raises \in
          GetDraws(refresh_token(data, FALSE, AuthNotCalled, FALSE)) :
    \E auth \in
          AuthDraws(refresh_token(data, get_raises, AuthNotCalled, FALSE)) :
    \E put_raises \in PutDraws(refresh_token(data, get_raises, auth, FALSE)) :
        /\ Serve("refresh", [data |-> data],
                 refresh_token(data, get_raises, auth, put_raises),
                 get_raises, put_raises)
        /\ UNCHANGED now

GetSettings(U) ==
    \E canva_user_id \in U \cup {""}, auth_header \in AuthHeaders :
    \E get_raises \in
          GetDraws(get_settings(canva_user_id, auth_header, FALSE)) :
        /\ Serve("get_settings",
                 [canvaUserId |-> canva_user_id, Authorization |-> auth_header],
                 get_settings(canva_user_id, auth_header, get_raises),
                 get_raises, FALSE)
        /\ UNCHANGED now

PostSettings(U) ==
    \E data \in SettingsBodies(U), auth_header \in AuthHeaders :
    \E get_raises \in
          GetDraws(post_settings(data, auth_header, FALSE, FALSE)) :
    \E put_raises \in
          PutDraws(post_settings(data, auth_header, get_raises, FALSE)) :
        /\ Serve("post_settings",
                 [data |-> data, Authorization |-> auth_header],
                 post_settings(data, auth_header, get_raises, put_raises),
                 get_raises, put_raises)
        /\ UNCHANGED now

\* Time passes between requests.
Tick ==
    /\ \E t \in Instants : t > now /\ now' = t
    /\ last' = [last EXCEPT !.fresh = FALSE]
    /\ UNCHANGED <<s3_client, blobs, inflight>>

Next ==
    \/ Login(Clients)
    \/ GetToken(Clients)
    \/ Refresh(Clients)
    \/ GetSettings(Clients)
    \/ PostSettings(Clients)
    \/ Tick

Spec == Init /\ [][Next]_vars

-----------------------------------------------------------------------------
(* Two requests for the same user served concurrently.  A handler runs as  *)
(* the steps between its blocking calls: get_object, the auth call and     *)
(* put_object.  Nothing is locked between the steps (app.py has no lock).  *)

RaceUser == "u1"

RaceRequests ==
    {[op |-> "refresh", data |-> [canvaUserId |-> RaceUser],
      Authorization |-> ""],
     [op |-> "post_settings",
      data |-> [canvaUserId |-> RaceUser, phoneNumber |-> <<"5">>],
      Authorization |-> "Bearer"]}

\* Worker a serves a refresh or a settings update, worker b a refresh, of
\* the user whose document was stored at time 0.
InitRace ==
    /\ s3_client = "S3"
    /\ blobs = InitialBucket([u \in UserIds |-> "no_ttl"])
    /\ now = 0
    /\ last = NoRequest
    /\ \E ra \in RaceRequests :
          inflight = [w \in Workers |->
                         [Idle EXCEPT !.op = IF w = "a" THEN ra.op
                                             ELSE "refresh",
                                      !.request =
                                          IF w = "a" THEN ra
                                          ELSE CHOOSE r \in RaceRequests :
                                                   r.op = "refresh"]]

\* The worker's locals after a step; a step that ends the request leaves
\* its response.
Proceed(w, pc, user_data, auth, doc) ==
    inflight' = [inflight EXCEPT ![w].pc = pc, ![w].user_data = user_data,
                                 ![w].auth = auth, ![w].doc = doc]

Respond(w, response) ==
    inflight' = [inflight EXCEPT ![w].pc = "done", ![w].response = response]

\* refresh_token up to the return of get_user_credentials (app.py:498-513).
RefreshLoad(w) ==
    /\ inflight[w].op = "refresh"
    /\ inflight[w].pc = "idle"
    /\ \E get_raises \in BOOLEAN :
          LET data == inflight[w].request.data
              early == refresh_token(data, get_raises, AuthNotCalled, FALSE)
          IN  IF early.auth = None
              THEN Respond(w, early.response)
              ELSE Proceed(w, "auth",
                           get_user_credentials(data.canvaUserId, get_raises),
                           None, None)
    /\ UNCHANGED <<s3_client, blobs, now, last>>

\* refresh_token from the auth call to the dict store_user_credentials
\* builds (app.py:516-565, 140-153): the clock is read here, the put follows.
RefreshAuth(w) ==
    /\ inflight[w].op = "refresh"
    /\ inflight[w].pc = "auth"
    /\ \E auth \in AuthOutcomes :
          LET u == inflight[w].request.data.canvaUserId
              user_data == inflight[w].user_data
              result == authenticate_and_store(u, user_data.workspace_id,
                            user_data.client_id, user_data.client_secret,
                            auth, FALSE, 1, RefreshErrors)
          IN  IF result.puts = 0
              THEN Respond(w, result.response)
              ELSE Proceed(w, "put", user_data, auth,
                           user_data_of(u, user_data.workspace_id,
                               user_data.client_id, user_data.client_secret,
                               token_of(auth), TOKEN_EXPIRY_SECONDS))
    /\ UNCHANGED <<s3_client, blobs, now, last>>

\* store_user_credentials' put_object and the response of refresh_token
\* (app.py:155-166, 565-577).
RefreshPut(w) ==
    /\ inflight[w].op = "refresh"
    /\ inflight[w].pc = "put"
    /\ \E put_raises \in BOOLEAN :
          IF put_raises
          THEN /\ Respond(w, [status |-> 500, success |-> FALSE,
                              error |-> RefreshErrors.store])
               /\ UNCHANGED blobs
          ELSE /\ blobs' = put_object(blobs,
                               Filename(inflight[w].request.data.canvaUserId),
                               inflight[w].doc)
               /\ Respond(w, [status |-> 200, success |-> TRUE,
                              token |-> token_of(inflight[w].auth),
                              expires_in |-> TOKEN_EXPIRY_SECONDS])
    /\ UNCHANGED <<s3_client, now, last>>

\* user_settings (POST) up to the update of the loaded dict
\* (app.py:638-687).
SettingsLoad(w) ==
    /\ inflight[w].op = "post_settings"
    /\ inflight[w].pc = "idle"
    /\ \E get_raises \in BOOLEAN :
          LET request == inflight[w].request
              early == post_settings(request.data, request.Authorization,
                                     get_raises, TRUE)
              user_data == get_user_credentials(request.data.canvaUserId,
                                                get_raises)
          IN  IF early.puts = 0
              THEN Respond(w, early.response)
              ELSE Proceed(w, "put", user_data, None,
                           with_phone(user_data,
                                      strip(request.data.phoneNumber)))
    /\ UNCHANGED <<s3_client, blobs, now, last>>

\* update_user_credentials and the response of user_settings
\* (app.py:690-702).
SettingsPut(w) ==
    /\ inflight[w].op = "post_settings"
    /\ inflight[w].pc = "put"
    /\ \E put_raises \in BOOLEAN :
          LET saved == update_user_credentials(
                           inflight[w].request.data.canvaUserId,
                           inflight[w].doc, put_raises)
          IN  /\ blobs' = saved.bucket
              /\ Respond(w, IF saved.ok
                            THEN [status |-> 200, success |-> TRUE,
                                  phoneNumber |-> inflight[w].doc.phoneNumber]
                            ELSE [status |-> 500, success |-> FALSE,
                                  error |->
                                    "Failed to save settings to storage"])
    /\ UNCHANGED <<s3_client, now, last>>

NextRace ==
    \/ \E w \in Workers : RefreshLoad(w)
    \/ \E w \in Workers : RefreshAuth(w)
    \/ \E w \in Workers : RefreshPut(w)
    \/ \E w \in Workers : SettingsLoad(w)
    \/ \E w \in Workers : SettingsPut(w)
    \/ Tick

SpecRace == InitRace /\ [][NextRace]_vars

-----------------------------------------------------------------------------
(* Requests of two users against one bucket that starts empty, served one  *)
(* at a time while the clock stands still.                                 *)

InitIsolation ==
    /\ s3_client = "S3"
    /\ blobs = <<>>
    /\ now = 0
    /\ last = NoRequest
    /\ inflight = [w \in Workers |-> Idle]

NextIsolation ==
    \/ Login(UserIds)
    \/ GetToken(UserIds)
    \/ Refresh(UserIds)
    \/ GetSettings(UserIds)
    \/ PostSettings(UserIds)

SpecIsolation == InitIsolation /\ [][NextIsolation]_vars

-----------------------------------------------------------------------------
(* Vocabulary of the properties, stated apart from the handlers' code *)

TtlDefault == 2419200

HasDoc(u) == Filename(u) \in DOMAIN blobs

DocOf(u) == blobs[Filename(u)]

WellFormed(doc) ==
    "token_timestamp" \in DOMAIN doc /\ Head(doc.token_timestamp) = "iso"

IssuedAt(doc) == doc.token_timestamp[2]

Ttl(doc) ==
    IF "token_expires_in" \in DOMAIN doc THEN doc.token_expires_in
    ELSE TtlDefault

\* now < expiry, with expiry = tokenIssuedAt + tokenTtlSeconds
ValidAt(doc, t) == WellFormed(doc) /\ t < IssuedAt(doc) + Ttl(doc)

\* The user a served request names, "" if it names none.
UserOf(l) ==
    IF l.op \in {"get_token", "get_settings"} THEN l.request.canvaUserId
    ELSE IF l.op \in {"login", "refresh", "post_settings"}
            /\ l.request.data # None
    THEN l.request.data.canvaUserId
    ELSE ""

Failed(l, status, error) ==
    /\ ~l.response.success
    /\ l.response.status = status
    /\ l.response.error = error

\* This step serves a request of kind op.
Served(op) == last'.fresh /\ last'.op = op

\* The backend answered every call the request made of it.
StoreWorked(l) == s3_client = "S3" /\ ~l.get_raised /\ ~l.put_raised

-----------------------------------------------------------------------------
\* C1: a request that ends in a failure result leaves the bucket exactly as
\* it was; the bucket changes only in a step whose request succeeds, and
\* then through exactly one put.
C1_NoPartialMutation ==
    [][ /\ ((last'.fresh /\ ~last'.response.success) => blobs' = blobs)
        /\ (blobs' # blobs => last'.response.success /\ last'.puts = 1)
      ]_vars

\* A login failed at the persist step, after the put was issued, with a
\* document of that user in the bucket.
C1_Witness ==
    /\ last.op = "login"
    /\ Failed(last, 500, "Failed to store credentials")
    /\ last.puts = 1
    /\ HasDoc("u1")

\* C2: a successful Refresh keeps the phoneNumber and settings_updated of
\* the document it replaces.
C2_RefreshPreservesPhone ==
    [][ (/\ Served("refresh")
         /\ last'.response.success
         /\ "phoneNumber" \in DOMAIN DocOf(UserOf(last')))
        => LET before == DocOf(UserOf(last'))
               after == blobs'[Filename(UserOf(last'))]
           IN  /\ "phoneNumber" \in DOMAIN after
               /\ after.phoneNumber = before.phoneNumber
               /\ "settings_updated" \in DOMAIN after
               /\ after.settings_updated = before.settings_updated
      ]_vars

\* C3: a login with all four inputs non-empty that the auth API answers
\* with a status outside {200, 201, 202} is rejected with 401 and issues no
\* put: the bucket is unchanged.
C3_RejectedLoginWritesNothing ==
    [][ (/\ Served("login")
         /\ last'.request.data # None
         /\ EmptyFields(last'.request.data) = {}
         /\ last'.auth # None
         /\ ~last'.auth.raised
         /\ last'.auth.status_code \notin {200, 201, 202})
        => /\ Failed(last', 401, "Authentication failed with Zotok API")
           /\ last'.puts = 0
           /\ blobs' = blobs
      ]_vars

C3_Witness ==
    /\ last.op = "login"
    /\ last.auth # None
    /\ ~last.auth.raised
    /\ last.auth.status_code = 403
    /\ last.auth.json_valid
    /\ last.response.status = 401
    /\ ~HasDoc("u1")

\* C4: a Refresh that names a user without a stored document answers 404
\* "No stored credentials found" and calls neither the auth API nor put.
C4_RefreshWithoutRecord ==
    [][ (/\ Served("refresh")
         /\ UserOf(last') # ""
         /\ ~HasDoc(UserOf(last')))
        => /\ Failed(last', 404, "No stored credentials found")
           /\ last'.auth = None
           /\ last'.auth_payload = None
           /\ last'.puts = 0
           /\ blobs' = blobs
      ]_vars

C4_Witness ==
    /\ last.op = "refresh"
    /\ UserOf(last) = "u1"
    /\ ~HasDoc("u1")
    /\ s3_client = "S3"
    /\ last.response.status = 404
    /\ last.gets = 1

\* C5: a settings POST whose phoneNumber is absent, empty or only
\* whitespace answers 400 and issues neither get nor put.
BlankPhone(data) ==
    \/ "phoneNumber" \notin DOMAIN data
    \/ /\ data.phoneNumber # JsonNull
       /\ \A i \in 1..Len(data.phoneNumber) : data.phoneNumber[i] = " "

C5_BlankPhoneRejected ==
    [][ (/\ Served("post_settings")
         /\ last'.request.data # None
         /\ BlankPhone(last'.request.data))
        => /\ ~last'.response.success
           /\ last'.response.status = 400
           /\ last'.gets = 0
           /\ last'.puts = 0
           /\ blobs' = blobs
      ]_vars

C5_Witness ==
    /\ last.op = "post_settings"
    /\ last.request.data = [canvaUserId |-> "u1", phoneNumber |-> <<" ">>]
    /\ last.request.Authorization # ""
    /\ Failed(last, 400, "Phone number is required")
    /\ HasDoc("u1")
    /\ ValidAt(DocOf("u1"), now)

\* C6: a document is valid exactly at the instants before
\* tokenIssuedAt + tokenTtlSeconds, so along the non-decreasing clock it is
\* valid, then invalid, and an unchanged document never becomes valid again.
C6_ValidityFlipsOnce ==
    /\ [](\A f \in DOMAIN blobs : \A t \in Instants :
            WellFormed(blobs[f]) =>
                (is_token_valid(blobs[f], t)
                    <=> t < IssuedAt(blobs[f]) + Ttl(blobs[f])))
    /\ [][ \A f \in DOMAIN blobs :
            (/\ f \in DOMAIN blobs'
             /\ blobs'[f] = blobs[f]
             /\ ~is_token_valid(blobs[f], now))
            => ~is_token_valid(blobs'[f], now')
         ]_vars

\* The clock stands exactly at the expiry of a document this program wrote,
\* and a token request has just been refused.
C6_Witness ==
    /\ HasDoc("u1")
    /\ "token_expires_in" \in DOMAIN DocOf("u1")
    /\ WellFormed(DocOf("u1"))
    /\ now = IssuedAt(DocOf("u1")) + Ttl(DocOf("u1"))
    /\ last.op = "get_token"
    /\ Failed(last, 401, "Stored token has expired")

\* C7: a token request naming a user reads the bucket and never writes it;
\* it answers 404 when there is no document, and, when the backend answers,
\* 401 when the document is not valid at the time of the check and
\* otherwise 200 with the stored login_token and remaining = ttl - age;
\* a token is only ever returned from a document valid at the check.
C7_GetTokenOutcomes ==
    [][ (Served("get_token") /\ UserOf(last') # "")
        => LET u == UserOf(last')
               r == last'.response
           IN  /\ blobs' = blobs
               /\ last'.puts = 0
               /\ last'.auth = None
               /\ r.status \in {200, 401, 404}
               /\ (~HasDoc(u) =>
                      Failed(last', 404, "No stored credentials found"))
               /\ (r.success =>
                      /\ HasDoc(u)
                      /\ ValidAt(DocOf(u), now)
                      /\ r.token = DocOf(u).login_token
                      /\ r.remaining_seconds =
                            Ttl(DocOf(u)) - (now' - IssuedAt(DocOf(u))))
               /\ ((StoreWorked(last') /\ HasDoc(u)) =>
                      IF ValidAt(DocOf(u), now)
                      THEN r.success
                      ELSE Failed(last', 401, "Stored token has expired"))
      ]_vars

\* A token was returned in the last second of its life.
C7_Witness ==
    /\ last.op = "get_token"
    /\ last.response.success
    /\ last.response.token = "t1"
    /\ last.response.remaining_seconds = 1

\* The token the auth API issued: token, else access_token.
IssuedToken(auth) ==
    IF auth.token # "" THEN auth.token ELSE auth.access_token

\* C8: a successful login stores, under the user's key, the issued token,
\* the supplied credentials, the time of the write and a ttl of 2419200;
\* a token request for that user that follows it before the ttl has
\* elapsed, the backend answering, returns the issued token.
C8_LoginThenGetToken ==
    [][ /\ (Served("login") /\ last'.response.success)
           => LET data == last'.request.data
                  doc == blobs'[Filename(data.canvaUserId)]
              IN  /\ last'.response.token = IssuedToken(last'.auth)
                  /\ doc.canva_user_id = data.canvaUserId
                  /\ doc.login_token = IssuedToken(last'.auth)
                  /\ doc.workspace_id = data.workspaceId
                  /\ doc.client_id = data.clientId
                  /\ doc.client_secret = data.clientSecret
                  /\ WellFormed(doc)
                  /\ IssuedAt(doc) = now'
                  /\ "token_expires_in" \in DOMAIN doc
                  /\ doc.token_expires_in = TtlDefault
                  /\ DOMAIN doc = {"canva_user_id", "workspace_id",
                         "client_id", "client_secret", "login_token",
                         "token_timestamp", "token_expires_in"}
        /\ (/\ Served("get_token")
            /\ last.op = "login"
            /\ last.response.success
            /\ UserOf(last') = UserOf(last)
            /\ StoreWorked(last')
            /\ now - IssuedAt(DocOf(UserOf(last))) < TtlDefault)
           => /\ last'.response.success
              /\ last'.response.token = IssuedToken(last.auth)
      ]_vars

\* A token request succeeded one second before the expiry of a document
\* written by a login at time 0 with that login's credentials.
C8_Witness ==
    /\ last.op = "get_token"
    /\ last.response.success
    /\ last.response.token = "t2"
    /\ HasDoc("u1")
    /\ DocOf("u1").workspace_id = "w1"
    /\ DocOf("u1").token_timestamp = isoformat(0)
    /\ now = TtlDefault - 1

\* p without its leading and trailing blanks.
Trim(p) ==
    LET solid == {i \in 1..Len(p) : p[i] # " "}
    IN  IF solid = {} THEN <<>>
        ELSE SubSeq(p, CHOOSE i \in solid : \A j \in solid : i <= j,
                       CHOOSE i \in solid : \A j \in solid : j <= i)

\* A settings request that passes the handler's input checks.
Accepted(l) ==
    /\ UserOf(l) # ""
    /\ l.request.Authorization # ""
    /\ l.op = "post_settings" =>
          /\ "phoneNumber" \in DOMAIN l.request.data
          /\ l.request.data.phoneNumber # JsonNull
          /\ ~BlankPhone(l.request.data)

\* The part of C9 that does not depend on how the phone number is stored:
\* success needs a document that is valid at the check; an accepted request
\* fails 404 without a document and, the backend answering, 401 with an
\* expired one, writing nothing; a successful GET returns the stored
\* phoneNumber, or the empty string.
C9_Guards ==
    (/\ last'.fresh
     /\ last'.op \in {"get_settings", "post_settings"}
     /\ UserOf(last') # "")
    => LET u == UserOf(last')
           r == last'.response
       IN  /\ (r.success =>
                  /\ HasDoc(u)
                  /\ ValidAt(DocOf(u), now)
                  /\ Accepted(last'))
           /\ ((Accepted(last') /\ ~HasDoc(u)) =>
                  /\ Failed(last', 404, "User data not found")
                  /\ blobs' = blobs)
           /\ ((Accepted(last') /\ HasDoc(u) /\ ~last'.get_raised
                /\ s3_client = "S3" /\ ~ValidAt(DocOf(u), now)) =>
                  /\ Failed(last', 401, "Token expired")
                  /\ last'.puts = 0
                  /\ blobs' = blobs)
           /\ ((Served("get_settings") /\ r.success) =>
                  /\ blobs' = blobs
                  /\ r.phoneNumber =
                        IF "phoneNumber" \in DOMAIN DocOf(u)
                        THEN DocOf(u).phoneNumber ELSE <<>>)

\* A successful GET that directly follows a successful POST for the same
\* user.
GetAfterSet ==
    /\ Served("get_settings")
    /\ last'.response.success
    /\ last.op = "post_settings"
    /\ last.response.success
    /\ UserOf(last') = UserOf(last)

\* C9 as claimed: C9_Guards, and a getPhone that follows a successful
\* setPhone(userId, p) returns p.
C9_SettingsAsClaimed ==
    [][ /\ C9_Guards
        /\ GetAfterSet =>
              last'.response.phoneNumber = last.request.data.phoneNumber
      ]_vars

\* C9 amended: C9_Guards, a successful setPhone(userId, p) stores and echoes
\* p without its leading and trailing whitespace, and a getPhone that
\* follows it returns that trimmed value.
C9_SettingsTrimmed ==
    [][ /\ C9_Guards
        /\ (Served("post_settings") /\ last'.response.success) =>
              /\ last'.response.phoneNumber =
                    Trim(last'.request.data.phoneNumber)
              /\ "phoneNumber" \in DOMAIN blobs'[Filename(UserOf(last'))]
              /\ blobs'[Filename(UserOf(last'))].phoneNumber =
                    Trim(last'.request.data.phoneNumber)
        /\ GetAfterSet =>
              last'.response.phoneNumber =
                  Trim(last.request.data.phoneNumber)
      ]_vars

\* A phone number given with a leading blank was saved.
C9_Witness ==
    /\ last.op = "post_settings"
    /\ last.response.success
    /\ last.request.data.phoneNumber = <<" ", "5">>
    /\ DocOf("u1").phoneNumber = <<"5">>

\* A request that gets as far as the credential store.
ReachesStore(l) ==
    \/ l.op \in {"get_token", "refresh"} /\ UserOf(l) # ""
    \/ l.op \in {"get_settings", "post_settings"} /\ Accepted(l)

\* C10: with the S3 client missing no request succeeds, a login that gets
\* past the auth API fails at the persist step, and every other request
\* that reaches the store reports a store failure (500), never 404.
C10_StoreUnavailableReported ==
    s3_client = "None" =>
        /\ ~last.response.success
        /\ last.puts = 0
        /\ last.gets = 0
        /\ (last.op = "login" /\ last.auth # None /\ ~last.auth.raised
            /\ last.auth.status_code \in {200, 201, 202}
            /\ last.auth.json_valid /\ IssuedToken(last.auth) # "")
           => Failed(last, 500, "Failed to store credentials")
        /\ ReachesStore(last) =>
              /\ last.response.status = 500
              /\ last.response.status # 404

\* A login request lacking one of its four inputs: no body, or a body in
\* which one of them is absent or empty.
LacksInput(l) ==
    \/ l.request.data = None
    \/ \E k \in {"workspaceId", "clientId", "clientSecret", "canvaUserId"} :
          l.request.data[k] = ""

\* C11: a login lacking one of its four inputs, the request without a body
\* included, answers 400 "Missing required credentials" before any auth
\* call and before any access to the store.
C11_MissingInputsRejected ==
    [][ (Served("login") /\ LacksInput(last'))
        => /\ Failed(last', 400, "Missing required credentials")
           /\ last'.auth = None
           /\ last'.auth_payload = None
           /\ last'.gets = 0
           /\ last'.puts = 0
           /\ blobs' = blobs
      ]_vars

\* The token the claim's ordered lookup yields: token first, access_token
\* when token is absent or empty, "" when neither holds a value.
FirstCandidate(auth) ==
    IF auth.token # "" THEN auth.token
    ELSE IF auth.access_token # "" THEN auth.access_token
    ELSE ""

\* The auth API answered a login or refresh with a success status and a
\* JSON object.
AuthAccepted(l) ==
    /\ l.op \in {"login", "refresh"}
    /\ l.auth # None
    /\ ~l.auth.raised
    /\ l.auth.status_code \in {200, 201, 202}
    /\ l.auth.json_valid

\* C12: when the auth API accepts a login or refresh, the token is token if
\* non-empty and else access_token; with neither the request fails 401 "No
\* token received" without a put, and otherwise a successful request
\* returns and stores that token; no stored document has an empty
\* login_token.
C12_TokenFieldOrder ==
    /\ [](\A f \in DOMAIN blobs : blobs[f].login_token # "")
    /\ [][ (last'.fresh /\ AuthAccepted(last'))
           => IF FirstCandidate(last'.auth) = ""
              THEN /\ ~last'.response.success
                   /\ last'.response.status = 401
                   /\ last'.response.error \in
                         {"No token received from Zotok API",
                          "No token received during refresh"}
                   /\ last'.puts = 0
                   /\ blobs' = blobs
              ELSE /\ s3_client = "S3" => last'.puts = 1
                   /\ last'.response.success =>
                         /\ last'.response.token = FirstCandidate(last'.auth)
                         /\ blobs'[Filename(UserOf(last'))].login_token =
                               FirstCandidate(last'.auth)
         ]_vars

\* A refresh was answered with both fields set and stored the one under
\* token.
C12_Witness ==
    /\ last.op = "refresh"
    /\ AuthAccepted(last)
    /\ last.auth.token = "t2"
    /\ last.auth.access_token = "t1"
    /\ last.response.success
    /\ DocOf("u1").login_token = "t2"

\* Worker w has finished a request of kind op with success.
Succeeded(w, op) ==
    /\ inflight[w].op = op
    /\ inflight[w].pc = "done"
    /\ inflight[w].response.success

\* In this step worker w moves from one place of its handler to another.
Moves(w, from, to) == inflight[w].pc = from /\ inflight'[w].pc = to

\* In this step worker w's put is carried out and its request succeeds.
PutsNow(w) == Moves(w, "put", "done") /\ inflight'[w].response.success

\* C13: each refresh builds one whole record (its token, its issued-at,
\* the stored credentials, the default ttl); the put of a refresh that
\* succeeds leaves exactly that record under the user's key, whatever the
\* other call has done, and answers with its own token; the bucket changes
\* in no other step; so after two successful refreshes the stored record
\* is the whole record of one of them, the one that put last.
C13_LastWriteWins ==
    /\ []((Succeeded("a", "refresh") /\ Succeeded("b", "refresh"))
          => DocOf(RaceUser) \in {inflight["a"].doc, inflight["b"].doc})
    /\ [][ /\ \A w \in Workers :
                (inflight[w].op = "refresh" /\ Moves(w, "auth", "put"))
                => inflight'[w].doc =
                      [canva_user_id |-> RaceUser,
                       workspace_id |-> inflight[w].user_data.workspace_id,
                       client_id |-> inflight[w].user_data.client_id,
                       client_secret |-> inflight[w].user_data.client_secret,
                       login_token |-> IssuedToken(inflight'[w].auth),
                       token_timestamp |-> <<"iso", now>>,
                       token_expires_in |-> TtlDefault]
           /\ \A w \in Workers :
                (inflight[w].op = "refresh" /\ PutsNow(w))
                => /\ blobs'[Filename(RaceUser)] = inflight[w].doc
                   /\ inflight'[w].response.token =
                         IssuedToken(inflight[w].auth)
           /\ blobs' # blobs => \E w \in Workers : PutsNow(w)
         ]_vars

\* Two refreshes have succeeded with different tokens; the one that built
\* its record first has put last, and its record is the one stored.
C13_Witness ==
    /\ Succeeded("a", "refresh")
    /\ Succeeded("b", "refresh")
    /\ inflight["a"].doc.login_token # inflight["b"].doc.login_token
    /\ IssuedAt(inflight["a"].doc) < IssuedAt(inflight["b"].doc)
    /\ DocOf(RaceUser) = inflight["a"].doc

\* C18: when a settings update and a refresh of the same user have run
\* interleaved and both have reported success, the stored record holds the
\* token and issued-at of that refresh together with the new phoneNumber.
C18_NoLostUpdate ==
    (Succeeded("a", "post_settings") /\ Succeeded("b", "refresh"))
    => /\ DocOf(RaceUser).login_token = IssuedToken(inflight["b"].auth)
       /\ DocOf(RaceUser).token_timestamp = inflight["b"].doc.token_timestamp
       /\ "phoneNumber" \in DOMAIN DocOf(RaceUser)
       /\ DocOf(RaceUser).phoneNumber = Trim(inflight["a"].request.data.phoneNumber)

\* doc with phoneNumber = q and settingsUpdatedAt = t, all else as in doc.
Merged(doc, q, t) ==
    [k \in DOMAIN doc \cup {"phoneNumber", "settings_updated"} |->
        IF k = "phoneNumber" THEN q
        ELSE IF k = "settings_updated" THEN <<"iso", t>>
        ELSE doc[k]]

\* The record a settings update makes of the record it loaded.
Updated(doc, p, t) == Merged(doc, Trim(p), t)

\* C18 amended: last put wins between a settings update and a refresh too.
\* The settings update builds its record from the record stored when it
\* loaded; its put leaves exactly that record, with the token and issued-at
\* it loaded even if a refresh has put since; the put of the refresh leaves
\* the refreshed record, which has no phoneNumber; after both succeeded the
\* stored record is one of the two whole records.
C18_LastPutWins ==
    /\ []((Succeeded("a", "post_settings") /\ Succeeded("b", "refresh"))
          => DocOf(RaceUser) \in {inflight["a"].doc, inflight["b"].doc})
    /\ [][ /\ \A w \in Workers :
                (inflight[w].op = "post_settings" /\ Moves(w, "idle", "put"))
                => inflight'[w].doc =
                      Updated(DocOf(RaceUser),
                              inflight[w].request.data.phoneNumber, now)
           /\ \A w \in Workers :
                (inflight[w].op = "post_settings" /\ PutsNow(w))
                => /\ blobs'[Filename(RaceUser)] = inflight[w].doc
                   /\ inflight'[w].response.phoneNumber =
                         Trim(inflight[w].request.data.phoneNumber)
           /\ \A w \in Workers :
                (inflight[w].op = "refresh" /\ PutsNow(w))
                => /\ blobs'[Filename(RaceUser)] = inflight[w].doc
                   /\ "phoneNumber" \notin DOMAIN blobs'[Filename(RaceUser)]
         ]_vars

\* Both have succeeded, and the settings update, which loaded before the
\* put of the refresh and put after it, has written the old token back.
C18_Witness ==
    /\ Succeeded("a", "post_settings")
    /\ Succeeded("b", "refresh")
    /\ DocOf(RaceUser).login_token = "t0"
    /\ DocOf(RaceUser).phoneNumber = <<"5">>
    /\ inflight["b"].response.token = "t1"
    /\ IssuedAt(inflight["b"].doc) = TtlDefault - 1

\* A successful settings update of the user the request names.
SetPhoneDone ==
    /\ Served("post_settings")
    /\ last'.response.success

\* The token fields and credentials of the written record are the loaded
\* ones, and the record is valid at exactly the same instants as before.
TokenUntouched(before, after) ==
    /\ \A k \in DOMAIN before \ {"phoneNumber", "settings_updated"} :
          k \in DOMAIN after /\ after[k] = before[k]
    /\ DOMAIN after = DOMAIN before \cup {"phoneNumber", "settings_updated"}
    /\ \A t \in Instants : ValidAt(after, t) <=> ValidAt(before, t)

\* C14 as claimed: a successful setPhone(userId, p) writes the record it
\* loaded with phoneNumber = p and settingsUpdatedAt = now, the token
\* fields and credentials as loaded.
C14_FrameAsClaimed ==
    [][ SetPhoneDone
        => LET u == UserOf(last')
           IN  /\ blobs'[Filename(u)] =
                     Merged(DocOf(u), last'.request.data.phoneNumber, now)
               /\ TokenUntouched(DocOf(u), blobs'[Filename(u)])
      ]_vars

\* C14 amended: the same with phoneNumber = p without its leading and
\* trailing whitespace.
C14_FrameTrimmed ==
    [][ SetPhoneDone
        => LET u == UserOf(last')
           IN  /\ blobs'[Filename(u)] =
                     Merged(DocOf(u), Trim(last'.request.data.phoneNumber),
                            now)
               /\ TokenUntouched(DocOf(u), blobs'[Filename(u)])
      ]_vars

\* A phone number was saved in the last second of the token's life, and
\* the token's issued-at is still the old one.
C14_Witness ==
    /\ last.op = "post_settings"
    /\ last.response.success
    /\ last.fresh
    /\ now = TtlDefault - 1
    /\ DocOf("u1").token_timestamp = <<"iso", 0>>
    /\ DocOf("u1").settings_updated = <<"iso", TtlDefault - 1>>
    /\ DocOf("u1").phoneNumber = <<"6">>

\* doc with tokenTtlSeconds = n.
WithTtl(doc, n) ==
    [k \in DOMAIN doc \cup {"token_expires_in"} |->
        IF k = "token_expires_in" THEN n ELSE doc[k]]

\* A request that checks the validity of the record of the user it names.
ChecksValidity(l) ==
    /\ l.op \in {"get_token", "get_settings", "post_settings"}
    /\ ReachesStore(l)

\* C15: a record whose token_timestamp is missing or does not parse is
\* invalid at every instant, and a token or settings request for it, the
\* backend answering, fails 401 (token expired) and writes nothing; a record
\* without token_expires_in is judged exactly as with 2419200, by the
\* checker and by the token request.
C15_FailClosedDefaultTtl ==
    /\ [](\A f \in DOMAIN blobs : \A t \in Instants :
            /\ ~WellFormed(blobs[f]) => ~is_token_valid(blobs[f], t)
            /\ "token_expires_in" \notin DOMAIN blobs[f]
               => (is_token_valid(blobs[f], t)
                      <=> is_token_valid(WithTtl(blobs[f], 2419200), t)))
    /\ [][ (last'.fresh /\ ChecksValidity(last') /\ HasDoc(UserOf(last')))
           => LET doc == DocOf(UserOf(last'))
                  r == last'.response
              IN  /\ r.success => WellFormed(doc)
                  /\ (~WellFormed(doc) /\ StoreWorked(last'))
                     => /\ ~r.success
                        /\ r.status = 401
                        /\ r.error \in {"Stored token has expired",
                                        "Token expired"}
                        /\ last'.puts = 0
                        /\ blobs' = blobs
                  /\ (/\ WellFormed(doc)
                      /\ "token_expires_in" \notin DOMAIN doc
                      /\ StoreWorked(last'))
                     => (r.success <=> now - IssuedAt(doc) < 2419200)
         ]_vars

\* A settings update was refused as expired, at time 0, because the stored
\* token_timestamp does not parse.
C15_Witness ==
    /\ last.op = "post_settings"
    /\ Failed(last, 401, "Token expired")
    /\ now = 0
    /\ HasDoc("u1")
    /\ "token_timestamp" \in DOMAIN DocOf("u1")
    /\ ~WellFormed(DocOf("u1"))

\* C16: no step removes a document from the bucket; a refresh of a user
\* whose stored token is no longer valid is not refused for that: when the
\* document is read it goes to the auth API with the stored credentials,
\* and when the auth API issues a token and the put works it succeeds and
\* leaves a valid document with the same credentials; a token request that
\* follows a successful refresh within the ttl succeeds with the new token.
C16_ExpiryAdvisory ==
    [][ /\ DOMAIN blobs \subseteq DOMAIN blobs'
        /\ (/\ Served("refresh")
            /\ UserOf(last') # ""
            /\ HasDoc(UserOf(last'))
            /\ ~ValidAt(DocOf(UserOf(last')), now)
            /\ s3_client = "S3"
            /\ ~last'.get_raised)
           => LET doc == DocOf(UserOf(last'))
                  after == blobs'[Filename(UserOf(last'))]
              IN  /\ last'.auth # None
                  /\ last'.auth_payload =
                        [workspaceId |-> doc.workspace_id,
                         clientId |-> doc.client_id,
                         signature |->
                            <<"hmac-sha256", doc.client_secret,
                              <<doc.workspace_id, "_", doc.client_id>>>>]
                  /\ (/\ AuthAccepted(last')
                      /\ FirstCandidate(last'.auth) # ""
                      /\ ~last'.put_raised)
                     => /\ last'.response.success
                        /\ last'.response.token = FirstCandidate(last'.auth)
                        /\ ValidAt(after, now')
                        /\ after.login_token = FirstCandidate(last'.auth)
                        /\ after.workspace_id = doc.workspace_id
                        /\ after.client_id = doc.client_id
                        /\ after.client_secret = doc.client_secret
        /\ (/\ Served("get_token")
            /\ last.op = "refresh"
            /\ last.response.success
            /\ UserOf(last') = UserOf(last)
            /\ StoreWorked(last')
            /\ now - IssuedAt(DocOf(UserOf(last))) < TtlDefault)
           => /\ last'.response.success
              /\ last'.response.token = FirstCandidate(last.auth)
      ]_vars

\* A token request has succeeded after the first token lifetime was over,
\* from a document that a refresh wrote with the credentials stored at
\* startup at the instant the startup token expired.
C16_Witness ==
    /\ last.op = "get_token"
    /\ last.response.success
    /\ now >= TtlDefault
    /\ DocOf("u1").workspace_id = "w0"
    /\ DocOf("u1").token_timestamp = <<"iso", TtlDefault>>
    /\ "token_expires_in" \in DOMAIN DocOf("u1")

\* C19: every successful token response reports a remaining lifetime that
\* is greater than 0 and at most the ttl of the stored record.
C19_RemainingPositive ==
    [][ (Served("get_token") /\ last'.response.success)
        => /\ last'.response.remaining_seconds > 0
           /\ last'.response.remaining_seconds <= Ttl(DocOf(UserOf(last')))
      ]_vars

\* The key of a user's blob: canva-catalog-app/{userId}.json.
KeyOf(u) == <<"canva-catalog-app/", u, ".json">>

\* C17: each user has one key and distinct users have distinct keys; a
\* blob under a user's key is that user's record; a request naming user u
\* leaves present, absent and unchanged every blob but the one under u's
\* key, and a request naming no user changes nothing; a token request for
\* v returns the login_token of the record under v's key.
C17_Isolation ==
    /\ [](/\ \A u \in UserIds : Filename(u) = KeyOf(u)
          /\ \A u, v \in UserIds : u # v => Filename(u) # Filename(v)
          /\ \A k \in DOMAIN blobs :
                \E v \in UserIds : k = KeyOf(v) /\ blobs[k].canva_user_id = v)
    /\ [][ last'.fresh
           => /\ \A k \in DOMAIN blobs \cup DOMAIN blobs' :
                    k # KeyOf(UserOf(last'))
                    => /\ k \in DOMAIN blobs
                       /\ k \in DOMAIN blobs'
                       /\ blobs'[k] = blobs[k]
              /\ UserOf(last') = "" => blobs' = blobs
              /\ (last'.op = "get_token" /\ last'.response.success)
                 => /\ KeyOf(UserOf(last')) \in DOMAIN blobs
                    /\ last'.response.token =
                          blobs[KeyOf(UserOf(last'))].login_token
                    /\ blobs[KeyOf(UserOf(last'))].canva_user_id =
                          UserOf(last')
         ]_vars

\* Both users are logged in with different tokens; a refresh for u1 has
\* just replaced u1's token while u2's record still holds u2's.
C17_Witness ==
    /\ last.op = "refresh"
    /\ UserOf(last) = "u1"
    /\ last.response.success
    /\ KeyOf("u1") \in DOMAIN blobs
    /\ KeyOf("u2") \in DOMAIN blobs
    /\ blobs[KeyOf("u1")].login_token = "t2"
    /\ blobs[KeyOf("u2")].login_token = "t1"
    /\ "phoneNumber" \in DOMAIN blobs[KeyOf("u2")]

====
